---- MODULE Spec2Model ----
(***************************************************************************)
(* The sql_to_arc streaming pipeline (middleware/sql_to_arc/main.py):      *)
(* process_investigations (the producer), process_single_dataset (one     *)
(* asyncio task per record), the asyncio event loop that interleaves them, *)
(* the ProcessPoolExecutor that runs the builds, and ProcessingStats.      *)
(*                                                                         *)
(* asyncio runs one callback at a time, in the order the callbacks were    *)
(* scheduled (call_soon appends to a FIFO).  The queue is `ready`; a task  *)
(* runs from one await to the next without interruption, so every step of  *)
(* a task is one action.  The producer is split at its statements and      *)
(* holds the loop (run = "P") between two suspensions.                     *)
(***************************************************************************)
EXTENDS Integers, Sequences, FiniteSets, TLC

\* ---------------------------------------------------------------- bounds
\* Longest source the model streams with every configuration.
MaxRecords == 3

\* Length of the one longer source, streamed with LongConfig only.
LongSource == MaxRecords + 1

\* Largest page the harvester asks the CSW server for (10 in harvester.py:293,
\* scaled down with the catalogue).
PageCap == 2

\* ----------------------------------------------------------- configuration
\* The Config fields the pipeline reads (sql_to_arc/config.py).  A run starts
\* with one of these configurations: the task cap below, at and above the
\* number of pool workers; a page of two rows; both size limits at one.
Configs ==
    {[max_concurrent_tasks |-> t, max_concurrent_arc_builds |-> b,
      db_batch_size |-> 2, max_studies |-> 1, max_assays |-> 1] :
        t \in 1..2, b \in 1..2}

\* The configuration of the long run: two tasks, one pool worker, pages of a
\* single row.
LongConfig ==
    [max_concurrent_tasks |-> 2, max_concurrent_arc_builds |-> 1,
     db_batch_size |-> 1, max_studies |-> 1, max_assays |-> 1]

\* Number of different identifiers in ARC_Investigation.
NumIds == 2

\* The id of the n-th row the cursor returns: the rows beyond NumIds repeat
\* the identifiers of the first ones, so a longer source holds duplicates.
RowId(n) == ((n - 1) % NumIds) + 1

\* str(row["id"]) as appended to failed_ids.
str(n) == <<"0", "1", "2", "3", "4", "5", "6", "7", "8", "9">>[n + 1]

\* The studies of a record, each given by the number of assay rows that
\* assays_by_study holds for it: one study with one assay (exactly at both
\* limits); two studies (over max_studies); one study with two assays (over
\* max_assays).
StudyShapes == {<<1>>, <<0, 0>>, <<2>>}

RECURSIVE SumSeq(_)
SumSeq(s) == IF s = << >> THEN 0 ELSE Head(s) + SumSeq(Tail(s))

\* main.py:309  num_studies = len(dataset_ctx.studies)
num_studies(r) == Len(r.studies)
\* main.py:310  num_assays = sum(len(assays_by_study.get(s["id"], [])) ...)
num_assays(r) == SumSeq(r.studies)

Tasks == 1..LongSource
NoRec == [id |-> 0, studies |-> << >>]

VARIABLES
    config,          \* the Config of the run
    srcLen,          \* number of rows of ARC_Investigation
    pageLeft,        \* rows of the fetched page not yet yielded
    pc,              \* position of the producer coroutine
    run,             \* who holds the event loop: "idle" or "P"
    ready,           \* the loop's FIFO of scheduled callbacks
    rec,             \* rec[i]: the i-th record the source yielded
    tpc,             \* tpc[i]: position of task i
    wake,            \* wake[i]: what ended the await task i is suspended in
    cbs,             \* cbs[i]: done-callbacks registered on task i, in order
    running_tasks,   \* main.py:446
    waitGen,         \* which asyncio.wait call the producer is in
    gatherLeft,      \* gather: children not yet reported done
    semaphore,       \* value of asyncio.Semaphore(config.max_concurrent_tasks)
    semWaiters,      \* tasks blocked in semaphore.acquire()
    poolQueue,       \* work items submitted to the executor, not yet started
    poolBusy,        \* work items a worker process is executing
    stats,           \* ProcessingStats
    built,           \* built[i]: what the awaited build of record i delivered
    upload,          \* upload[i]: create_or_update_arc for record i: called, its result
    exc,             \* exc[i]: task i ended with an exception nobody caught
    \* stream_investigation_datasets, row by row (main.py:159-217)
    db,              \* the tables ARC_Investigation, ARC_Study, ARC_Assay
    cur,             \* rows of ARC_Investigation the cursor has returned
    spc,             \* position of the generator
    rows,            \* main.py:179
    study_rows,      \* main.py:198
    studies_by_inv,  \* main.py:199
    assays_by_study, \* main.py:205
    nxt,             \* index in rows of the row the loop of main.py:215 is at
    yielded,         \* the items yielded so far, in order
    fetches,         \* calls of fetchmany that returned
    error,           \* the await that raised: "none", "fetchmany", "studies", "assays"
    \* main and asyncio.run (main.py:504-565)
    cancelled,       \* the task running main() was cancelled
    stdout,          \* the reports printed
    \* CSWClient.get_records consumed by run_harvest (inspire_to_arc)
    catalogue,       \* the CSW server: its size, how it counts positions, how it reports matches
    max_records,     \* argument of get_records
    hpc,             \* where the harvest stands
    start_position,  \* harvester.py:299
    records_yielded, \* harvester.py:300
    dc_ids,          \* identifiers of the page's Dublin Core response
    csw_records,     \* self._csw.records after the ISO request, as a list
    matches,         \* self._csw.results["matches"]
    idx,             \* position of the for-loop in csw_records
    yielded_here,    \* records_yielded inside _yield_records_with_stable_ids
    count,           \* parsed records of the page (harvester.py:317)
    items,           \* every item get_records has yielded
    uploads,         \* the calls of create_or_update_arc: for which item, and whether it raised
    requests,        \* CSW requests sent
    failed,          \* the requests that met a connection failure
    herror,          \* the exception get_records raised to its caller
    \* build_single_arc_task
    arcs             \* the ArcInvestigation built for each yielded item, in order

streamVars == <<db, cur, spc, rows, study_rows, studies_by_inv, assays_by_study, nxt,
                yielded, fetches, error>>

runVars == <<config, srcLen, pageLeft, pc, run, ready, rec, tpc, wake, cbs, running_tasks,
             waitGen, gatherLeft, semaphore, semWaiters, poolQueue, poolBusy,
             stats, built, upload, exc>>

mainVars == <<cancelled, stdout>>

harvestVars == <<catalogue, max_records, hpc, start_position, records_yielded, dc_ids,
                 csw_records, matches, idx, yielded_here, count, items, uploads, requests,
                 failed, herror>>

vars == <<runVars, streamVars, mainVars, harvestVars, arcs>>

Handle(k, t, g) == [k |-> k, t |-> t, g |-> g]
StepOf(t) == Handle("step", t, 0)

\* A finished task schedules its done-callbacks in registration order.
CallbackHandles(i) == [n \in 1..Len(cbs[i]) |-> Handle(cbs[i][n].k, i, cbs[i][n].g)]

\* ------------------------------------------------------------ the tables
\* The most studies a shape has, the most assays one of its studies has.
MostStudies == CHOOSE n \in 0..9 : /\ \E sh \in StudyShapes : Len(sh) = n
                                   /\ \A sh \in StudyShapes : Len(sh) <= n
MostAssays == CHOOSE n \in 0..9 :
                 /\ \E sh \in StudyShapes : \E k \in 1..Len(sh) : sh[k] = n
                 /\ \A sh \in StudyShapes : \A k \in 1..Len(sh) : sh[k] <= n

\* The n-th row of ARC_Investigation: its id and, standing for the other
\* columns, its place in the table.
InvRow(n) == [id |-> RowId(n), title |-> n]

\* ARC_Study for `shapes`, which gives every investigation id its studies as
\* in StudyShapes (or none): the k-th study of investigation d has id 10d + k;
\* the table holds the first studies of all investigations, then the second.
StudyTable(shapes) ==
    LET all == [n \in 1..(MostStudies * NumIds) |->
                  LET k == ((n - 1) \div NumIds) + 1
                      d == ((n - 1) % NumIds) + 1
                  IN [id |-> 10 * d + k, investigation_id |-> d]]
    IN SelectSeq(all, LAMBDA s : s.id % 10 <= Len(shapes[s.investigation_id]))

\* ARC_Assay for `shapes`: the m-th assay of study t has id 10t + m.
AssayTable(shapes) ==
    LET studies == StudyTable(shapes)
        all == [n \in 1..(MostAssays * Len(studies)) |->
                  LET m == ((n - 1) \div Len(studies)) + 1
                      t == studies[((n - 1) % Len(studies)) + 1]
                  IN [id |-> 10 * t.id + m, study_id |-> t.id,
                      of |-> shapes[t.investigation_id][t.id % 10]]]
    IN [n \in 1..Len(SelectSeq(all, LAMBDA a : a.id % 10 <= a.of)) |->
          LET a == SelectSeq(all, LAMBDA b : b.id % 10 <= b.of)[n]
          IN [id |-> a.id, study_id |-> a.study_id]]

\* The databases the generator is run on: up to MaxRecords investigations,
\* every investigation id with no study or with the studies of a shape.
Databases ==
    {[inv |-> [n \in 1..len |-> InvRow(n)],
      study |-> StudyTable(shapes),
      assay |-> AssayTable(shapes)] :
        len \in 0..MaxRecords,
        shapes \in [1..NumIds -> StudyShapes \cup {<< >>}]}

InvIds == 1..NumIds
StudyIds == {10 * d + k : d \in InvIds, k \in 1..MostStudies}

\* defaultdict(list) before anything is appended.
NoStudies == [d \in InvIds |-> << >>]
NoAssays == [t \in StudyIds |-> << >>]

\* The generator's rows are not followed in this run.
Untracked ==
    /\ db = [inv |-> << >>, study |-> << >>, assay |-> << >>]
    /\ cur = 0
    /\ spc = "untracked"
    /\ rows = << >>
    /\ study_rows = << >>
    /\ studies_by_inv = NoStudies
    /\ assays_by_study = NoAssays
    /\ nxt = 0
    /\ yielded = << >>
    /\ fetches = 0
    /\ error = "none"

\* No harvest in this run.
NotHarvesting ==
    /\ catalogue = << >>
    /\ max_records = 0
    /\ hpc = "none"
    /\ start_position = 0
    /\ records_yielded = 0
    /\ dc_ids = << >>
    /\ csw_records = << >>
    /\ matches = 0
    /\ idx = 0
    /\ yielded_here = 0
    /\ count = 0
    /\ items = << >>
    /\ uploads = << >>
    /\ requests = 0
    /\ failed = {}
    /\ herror = "none"

\* main.py:421-446: process_investigations is entered; nothing is fetched,
\* the semaphore holds max_concurrent_tasks tickets, the pool is idle.
Entered ==
    /\ pageLeft = 0
    /\ pc = "pull"
    /\ run = "P"
    /\ ready = << >>
    /\ rec = [i \in Tasks |-> NoRec]
    /\ tpc = [i \in Tasks |-> "none"]
    /\ wake = [i \in Tasks |-> "none"]
    /\ cbs = [i \in Tasks |-> << >>]
    /\ running_tasks = {}
    /\ waitGen = 0
    /\ gatherLeft = 0
    /\ semaphore = config.max_concurrent_tasks
    /\ semWaiters = << >>
    /\ poolQueue = << >>
    /\ poolBusy = {}
    /\ stats = [found_datasets |-> 0, total_studies |-> 0, total_assays |-> 0,
                failed_datasets |-> 0, failed_ids |-> << >>]
    /\ built = [i \in Tasks |-> "none"]
    /\ upload = [i \in Tasks |-> "none"]
    /\ exc = [i \in Tasks |-> FALSE]
    /\ cancelled = FALSE
    /\ stdout = << >>
    /\ arcs = << >>

Init ==
    /\ config \in Configs
    /\ srcLen \in 0..MaxRecords
    /\ Entered
    /\ Untracked
    /\ NotHarvesting

\* The long run: LongSource rows under LongConfig.
LongInit ==
    /\ config = LongConfig
    /\ srcLen = LongSource
    /\ Entered
    /\ Untracked
    /\ NotHarvesting

Min(a, b) == IF a < b THEN a ELSE b

\* Ascending enumeration of a set of task numbers.
RECURSIVE SetToSeq(_)
SetToSeq(S) == IF S = {} THEN << >>
               ELSE LET m == CHOOSE x \in S : \A y \in S : x <= y
                    IN <<m>> \o SetToSeq(S \ {m})

\* fut.add_done_callback(cb) for every task of S: a task that is already done
\* gets the callback scheduled at once (call_soon), the others keep it.
Registered(S, cb) ==
    [i \in Tasks |-> IF i \in S /\ tpc[i] # "done" THEN Append(cbs[i], cb) ELSE cbs[i]]
ScheduledNow(S, cb) ==
    LET done == SetToSeq({i \in S : tpc[i] = "done"})
    IN [n \in 1..Len(done) |-> Handle(cb.k, done[n], cb.g)]

\* ------------------------------------------------------------- the source
\* stream_investigation_datasets: the generator runs into an await (execute,
\* fetchmany, the two detail queries) when the rows of the page are used up.
PFetch ==
    /\ run = "P" /\ pc = "pull" /\ pageLeft = 0
    /\ pc' = "fetch"
    /\ run' = "idle"
    /\ UNCHANGED <<arcs, harvestVars, streamVars, mainVars>>
    /\ UNCHANGED <<config, srcLen, pageLeft, ready, rec, tpc, wake, cbs, running_tasks, waitGen,
                   gatherLeft, semaphore, semWaiters, poolQueue, poolBusy, stats,
                   built, upload, exc>>

\* The database answers: fetchmany(batch_size) and the child queries completed.
FetchDone ==
    /\ run = "idle" /\ pc = "fetch"
    /\ pageLeft' = Min(config.db_batch_size, srcLen - stats.found_datasets)
    /\ pc' = "fetched"
    /\ ready' = Append(ready, StepOf(0))
    /\ UNCHANGED <<arcs, harvestVars, streamVars, mainVars>>
    /\ UNCHANGED <<config, srcLen, run, rec, tpc, wake, cbs, running_tasks, waitGen, gatherLeft,
                   semaphore, semWaiters, poolQueue, poolBusy, stats, built, upload, exc>>

\* main.py:448-449: `async for item in stream...` yields the next row of the
\* page without suspending; stats.found_datasets += 1.
PPull ==
    /\ run = "P" /\ pc = "pull" /\ pageLeft > 0
    /\ \E sh \in StudyShapes :
          rec' = [rec EXCEPT ![stats.found_datasets + 1] =
                                [id |-> RowId(stats.found_datasets + 1), studies |-> sh]]
    /\ pageLeft' = pageLeft - 1
    /\ stats' = [stats EXCEPT !.found_datasets = @ + 1]
    /\ pc' = "gate"
    /\ UNCHANGED <<arcs, harvestVars, streamVars, mainVars>>
    /\ UNCHANGED <<config, srcLen, run, ready, tpc, wake, cbs, running_tasks, waitGen, gatherLeft,
                   semaphore, semWaiters, poolQueue, poolBusy, built, upload, exc>>

\* The gate with `>` in place of `>=`.
GateClosedOffByOne == Cardinality(running_tasks) > config.max_concurrent_tasks

\* The gate left out: the producer spawns whatever the set holds.
GateNeverClosed == FALSE

\* main.py:454  if len(running_tasks) >= config.max_concurrent_tasks
GateClosed == Cardinality(running_tasks) >= config.max_concurrent_tasks

\* main.py:454-455: the backlog gate.  asyncio.wait registers _on_completion on
\* every task of the set and suspends the producer on a fresh waiter.
PGate ==
    /\ run = "P" /\ pc = "gate"
    /\ IF GateClosed
       THEN LET cb == [k |-> "wait", g |-> waitGen + 1] IN
            /\ waitGen' = waitGen + 1
            /\ cbs' = Registered(running_tasks, cb)
            /\ ready' = ready \o ScheduledNow(running_tasks, cb)
            /\ pc' = "waiting"
            /\ run' = "idle"
       ELSE /\ pc' = "spawn"
            /\ UNCHANGED <<waitGen, cbs, ready, run>>
    /\ UNCHANGED <<arcs, harvestVars, streamVars, mainVars>>
    /\ UNCHANGED <<config, srcLen, pageLeft, rec, tpc, wake, running_tasks, gatherLeft,
                   semaphore, semWaiters, poolQueue, poolBusy, stats, built, upload, exc>>

\* main.py:457-469: create_task, running_tasks.add(task),
\* task.add_done_callback(running_tasks.discard).
PSpawn ==
    /\ run = "P" /\ pc = "spawn"
    /\ LET i == stats.found_datasets IN
       /\ tpc' = [tpc EXCEPT ![i] = "new"]
       /\ ready' = Append(ready, StepOf(i))
       /\ running_tasks' = running_tasks \cup {i}
       /\ cbs' = [cbs EXCEPT ![i] = <<[k |-> "discard", g |-> 0]>>]
    /\ pc' = "pull"
    /\ UNCHANGED <<arcs, harvestVars, streamVars, mainVars>>
    /\ UNCHANGED <<config, srcLen, pageLeft, run, rec, wake, waitGen, gatherLeft, semaphore,
                   semWaiters, poolQueue, poolBusy, stats, built, upload, exc>>

\* main.py:472-474: the source is exhausted; gather the tasks still in the set.
PDrain ==
    /\ run = "P" /\ pc = "drain"
    /\ IF running_tasks # {}
       THEN LET cb == [k |-> "gather", g |-> 0] IN
            /\ gatherLeft' = Cardinality(running_tasks)
            /\ cbs' = Registered(running_tasks, cb)
            /\ ready' = ready \o ScheduledNow(running_tasks, cb)
            /\ pc' = "gathering"
            /\ run' = "idle"
       ELSE /\ pc' = "shutdown"
            /\ UNCHANGED <<gatherLeft, cbs, ready, run>>
    /\ UNCHANGED <<arcs, harvestVars, streamVars, mainVars>>
    /\ UNCHANGED <<config, srcLen, pageLeft, rec, tpc, wake, running_tasks, waitGen,
                   semaphore, semWaiters, poolQueue, poolBusy, stats, built, upload, exc>>

\* main.py:432-476: leaving `with ProcessPoolExecutor(...)` is
\* shutdown(wait=True): it blocks until the pool has run every work item it
\* still holds; then `return stats`, or the exception on its way out.
PShutdown ==
    /\ run = "P" /\ pc \in {"shutdown", "unwinding"}
    /\ poolQueue = << >> /\ poolBusy = {}
    /\ pc' = IF pc = "shutdown" THEN "returned" ELSE "raised"
    /\ run' = "idle"
    /\ UNCHANGED <<arcs, harvestVars, streamVars, mainVars>>
    /\ UNCHANGED <<config, srcLen, pageLeft, ready, rec, tpc, wake, cbs, running_tasks, waitGen,
                   gatherLeft, semaphore, semWaiters, poolQueue, poolBusy, stats,
                   built, upload, exc>>

\* The loop resumes the producer: after a fetch, after asyncio.wait (whose
\* finally-block removes _on_completion from every task), after gather.
PResume ==
    /\ run = "idle" /\ ready # << >> /\ Head(ready) = StepOf(0)
    /\ pc \in {"fetched", "woken", "gathered", "gather_raised"}
    /\ ready' = Tail(ready)
    /\ run' = "P"
    /\ pc' = CASE pc = "fetched" -> (IF pageLeft = 0 THEN "drain" ELSE "pull")
               [] pc = "woken" -> "spawn"
               [] pc = "gathered" -> "shutdown"
               [] pc = "gather_raised" -> "unwinding"
    /\ cbs' = IF pc = "woken"
              THEN [i \in Tasks |-> SelectSeq(cbs[i], LAMBDA c : c.k # "wait")]
              ELSE cbs
    /\ UNCHANGED <<arcs, harvestVars, streamVars, mainVars>>
    /\ UNCHANGED <<config, srcLen, pageLeft, rec, tpc, wake, running_tasks, waitGen, gatherLeft,
                   semaphore, semWaiters, poolQueue, poolBusy, stats, built, upload, exc>>

\* ------------------------------------------------------- done-callbacks
\* running_tasks.discard(task)
RunDiscard ==
    /\ run = "idle" /\ ready # << >> /\ Head(ready).k = "discard"
    /\ running_tasks' = running_tasks \ {Head(ready).t}
    /\ ready' = Tail(ready)
    /\ UNCHANGED <<arcs, harvestVars, streamVars, mainVars>>
    /\ UNCHANGED <<config, srcLen, pageLeft, pc, run, rec, tpc, wake, cbs, waitGen, gatherLeft,
                   semaphore, semWaiters, poolQueue, poolBusy, stats, built, upload, exc>>

\* asyncio.wait's _on_completion under FIRST_COMPLETED: the first one sets the
\* waiter and so schedules the producer; one that belongs to an earlier wait,
\* or comes after the waiter is set, does nothing.
RunWaitCb ==
    /\ run = "idle" /\ ready # << >> /\ Head(ready).k = "wait"
    /\ IF Head(ready).g = waitGen /\ pc = "waiting"
       THEN /\ pc' = "woken"
            /\ ready' = Append(Tail(ready), StepOf(0))
       ELSE /\ ready' = Tail(ready)
            /\ pc' = pc
    /\ UNCHANGED <<arcs, harvestVars, streamVars, mainVars>>
    /\ UNCHANGED <<config, srcLen, pageLeft, run, rec, tpc, wake, cbs, running_tasks, waitGen,
                   gatherLeft, semaphore, semWaiters, poolQueue, poolBusy, stats,
                   built, upload, exc>>

\* Waiting for the first remaining task only.
GatherFirstOnly == TRUE

\* main.py:474  gather(*running_tasks) is complete when the last child has
\* reported.
GatherComplete == gatherLeft = 1

\* gather's _done_callback: a child that ended with an exception sets it on
\* the outer future at once, the last child to report sets the result, or
\* CancelledError if the gathering was cancelled meanwhile; once the outer
\* future is done the callback does nothing.
RunGatherCb ==
    /\ run = "idle" /\ ready # << >> /\ Head(ready).k = "gather"
    /\ gatherLeft' = gatherLeft - 1
    /\ IF pc = "gathering" /\ (exc[Head(ready).t] \/ GatherComplete)
       THEN /\ pc' = IF exc[Head(ready).t] \/ cancelled THEN "gather_raised"
                     ELSE "gathered"
            /\ ready' = Append(Tail(ready), StepOf(0))
       ELSE /\ ready' = Tail(ready)
            /\ pc' = pc
    /\ UNCHANGED <<arcs, harvestVars, streamVars, mainVars>>
    /\ UNCHANGED <<config, srcLen, pageLeft, run, rec, tpc, wake, cbs, running_tasks, waitGen,
                   semaphore, semWaiters, poolQueue, poolBusy, stats, built, upload, exc>>

\* --------------------------------------------------------- ProcessingStats
\* Position of a one-character string in Python's string order.
ord(c) == CHOOSE n \in 0..9 : str(n) = c

RECURSIVE Insert(_, _)
Insert(x, s) == IF s = << >> THEN <<x>>
                ELSE IF ord(x) < ord(Head(s)) THEN <<x>> \o s
                ELSE <<Head(s)>> \o Insert(x, Tail(s))

\* The report listing failed_ids as they were appended.
unsorted(s) == s

\* main.py:101  sorted(self.failed_ids): ascending in string order, equal
\* strings in their order of appearance.
RECURSIVE sorted(_)
sorted(s) == IF s = << >> THEN << >>
             ELSE Insert(s[Len(s)], sorted(SubSeq(s, 1, Len(s) - 1)))

\* main.py:62-112  the fields of the report that depend on the run.
to_jsonld(st) ==
    [status |-> IF st.failed_datasets = 0 THEN "schema:CompletedActionStatus"
                ELSE "schema:FailedActionStatus",
     found_datasets |-> st.found_datasets,
     total_studies |-> st.total_studies,
     total_assays |-> st.total_assays,
     failed_datasets |-> st.failed_datasets,
     failed_ids |-> sorted(st.failed_ids)]

\* ------------------------------------------------- process_single_dataset
\* The limits compared with `>=`: a record exactly at a limit is refused.
OverLimitAtLimit(r) ==
    num_studies(r) >= config.max_studies \/ num_assays(r) >= config.max_assays

\* main.py:322 and 333: the two size limits.
OverLimit(r) == num_studies(r) > config.max_studies \/ num_assays(r) > config.max_assays

\* The totals counted after the validation: an over-limit record adds nothing.
CountedWithinLimits(st, r) ==
    IF OverLimit(r) THEN st
    ELSE [st EXCEPT !.total_studies = @ + num_studies(r),
                    !.total_assays = @ + num_assays(r)]

\* main.py:311-312
Counted(st, r) == [st EXCEPT !.total_studies = @ + num_studies(r),
                             !.total_assays = @ + num_assays(r)]

\* A failure path that appends the id and forgets the counter.
MarkFailedNoCount(st, r) == [st EXCEPT !.failed_ids = Append(@, str(r.id))]

\* A failure path that counts and forgets the id.
MarkFailedNoAppend(st, r) == [st EXCEPT !.failed_datasets = @ + 1]

\* A failure recorded by two handlers in a row.
MarkFailedTwice(st, r) == [st EXCEPT !.failed_datasets = @ + 2,
                                     !.failed_ids = Append(Append(@, str(r.id)), str(r.id))]

\* stats.failed_datasets += 1; stats.failed_ids.append(str(row["id"]))
\* (main.py:329-330, 340-341, 363-364, 369-370, 398-399, 402-403)
MarkFailed(st, r) == [st EXCEPT !.failed_datasets = @ + 1,
                                !.failed_ids = Append(@, str(r.id))]

\* The check of the build result left out: whatever was returned is uploaded.
BuildOkUnchecked(w) == w \in {"json", "empty"}

\* main.py:367  `if not json_str` after the awaited build returned.
BuildOk(w) == w = "json"

\* What an awaited build delivers, what an awaited upload delivers.
BuildResults == {"json", "empty", "raise"}
UploadResults == {"ok", "api_error", "bad_response"}

\* The handlers without `except TimeoutError`, TimeoutError taken for an
\* exception that passes the others.
CaughtNoTimeout(kind) == kind \in {"api_error", "raise", "bad_response"}

\* The handlers without the final `except Exception`.
CaughtNoBroad(kind) == kind \in {"timeout", "api_error"}

\* main.py:357 and 396-403: the handlers around the body.  TimeoutError has
\* its own handler; ApiClientError, psycopg.Error and OSError have one; every
\* other Exception (a build that raised, a response that cannot be read) is
\* taken by `except Exception`.
Caught(kind) == kind \in {"timeout", "api_error", "raise", "bad_response"}

\* Only an ApiClientError counted as a failed upload.
UploadFailedOnlyApi(w) == w = "api_error"

\* main.py:384-395: the upload went through when the call returned a
\* response and reading its status raised nothing.
UploadFailed(w) == w # "ok"

\* The coroutine ends: `async with semaphore` releases the ticket, handing it
\* to the first waiter if there is one, and the finished task schedules its
\* done-callbacks.  `val` is the semaphore's value while this task holds its
\* ticket, `st` the stats to leave behind, `e` whether an exception escapes.
Exit(i, rest, st, e, val) ==
    /\ tpc' = [tpc EXCEPT ![i] = "done"]
    /\ stats' = st
    /\ exc' = [exc EXCEPT ![i] = e]
    /\ wake' = [wake EXCEPT ![i] = "none"]
    /\ cbs' = [cbs EXCEPT ![i] = << >>]
    /\ IF semWaiters # << >>
       THEN /\ semaphore' = val
            /\ semWaiters' = Tail(semWaiters)
            /\ ready' = (rest \o <<StepOf(Head(semWaiters))>>) \o CallbackHandles(i)
       ELSE /\ semaphore' = val + 1
            /\ semWaiters' = semWaiters
            /\ ready' = rest \o CallbackHandles(i)

\* An exception of `kind` is raised in the body: a handler records the
\* failure and the coroutine returns, or the exception leaves the task.
Raise(i, rest, kind) ==
    IF Caught(kind)
    THEN Exit(i, rest, MarkFailed(stats, rec[i]), FALSE, semaphore)
    ELSE Exit(i, rest, stats, TRUE, semaphore)

\* main.py:306-356 with the ticket held: count, check the limits, submit the
\* build to the executor and await it under wait_for.
Begin(i, rest, val) ==
    LET st == Counted(stats, rec[i]) IN
    IF OverLimit(rec[i])
    THEN /\ Exit(i, rest, MarkFailed(st, rec[i]), FALSE, val)
         /\ UNCHANGED <<poolQueue, built>>
    ELSE /\ poolQueue' = Append(poolQueue, i)
         /\ built' = [built EXCEPT ![i] = "submitted"]
         /\ tpc' = [tpc EXCEPT ![i] = "building"]
         /\ stats' = st
         /\ semaphore' = val
         /\ ready' = rest
         /\ UNCHANGED <<wake, cbs, semWaiters, exc>>

\* One step of task i, from where it was suspended to its next await or its end.
TaskStep(i) ==
    /\ run = "idle" /\ ready # << >> /\ Head(ready) = StepOf(i)
    /\ wake[i] # "cancel"
    /\ LET rest == Tail(ready) IN
       CASE tpc[i] = "new" ->
              \* main.py:305  async with semaphore
              IF semaphore > 0 /\ semWaiters = << >>
              THEN Begin(i, rest, semaphore - 1) /\ UNCHANGED upload
              ELSE /\ tpc' = [tpc EXCEPT ![i] = "sem_wait"]
                   /\ semWaiters' = Append(semWaiters, i)
                   /\ ready' = rest
                   /\ UNCHANGED <<wake, cbs, semaphore, poolQueue, stats, built, upload,
                                  exc>>
         [] tpc[i] = "sem_wait" -> Begin(i, rest, semaphore) /\ UNCHANGED upload
         [] tpc[i] = "building" ->
              \* main.py:346-383: the await ends on the timeout or on what the
              \* build produced: the JSON string, nothing, or an exception.
              \E res \in (IF wake[i] = "timeout" THEN {"timeout"} ELSE BuildResults) :
              /\ built' = [built EXCEPT ![i] = res]
              /\ IF res \in {"timeout", "raise"}
                 THEN /\ Raise(i, rest, res)
                      /\ UNCHANGED <<poolQueue, upload>>
                 ELSE IF BuildOk(res)
                 THEN /\ upload' = [upload EXCEPT ![i] = "called"]
                      /\ tpc' = [tpc EXCEPT ![i] = "uploading"]
                      /\ wake' = [wake EXCEPT ![i] = "none"]
                      /\ ready' = rest
                      /\ UNCHANGED <<cbs, semaphore, semWaiters, poolQueue, stats,
                                     exc>>
                 ELSE /\ Exit(i, rest, MarkFailed(stats, rec[i]), FALSE, semaphore)
                      /\ UNCHANGED <<poolQueue, upload>>
         [] tpc[i] = "uploading" ->
              \* main.py:380-403: the upload gave a response, raised
              \* ApiClientError, or gave a response whose handling raises.
              \E res \in UploadResults :
              /\ upload' = [upload EXCEPT ![i] = res]
              /\ IF UploadFailed(res)
                 THEN Raise(i, rest, res)
                 ELSE Exit(i, rest, stats, FALSE, semaphore)
              /\ UNCHANGED <<poolQueue, built>>
    /\ UNCHANGED <<arcs, harvestVars, streamVars, mainVars>>
    /\ UNCHANGED <<config, srcLen, pageLeft, pc, run, rec, running_tasks, waitGen, gatherLeft,
                   poolBusy>>

\* ---------------------------------------------------------- the executor
\* The pool sized by the task cap instead of the build cap.
WorkerFreeByTaskCap == Cardinality(poolBusy) < config.max_concurrent_tasks + 1

\* main.py:432-434  ProcessPoolExecutor(max_workers=config.max_concurrent_arc_builds):
\* a free worker process takes the oldest submitted work item.
WorkerFree == Cardinality(poolBusy) < config.max_concurrent_arc_builds

PoolStart ==
    /\ poolQueue # << >> /\ WorkerFree
    /\ poolBusy' = poolBusy \cup {Head(poolQueue)}
    /\ poolQueue' = Tail(poolQueue)
    /\ UNCHANGED <<arcs, harvestVars, streamVars, mainVars>>
    /\ UNCHANGED <<config, srcLen, pageLeft, pc, run, ready, rec, tpc, wake, cbs, running_tasks,
                   waitGen, gatherLeft, semaphore, semWaiters, stats, built, upload, exc>>

\* build_arc_for_investigation ends in its worker and the worker is free
\* again.  The awaiting task is woken unless it gave up; what the build
\* produced reaches the program when the task resumes (TaskStep).
PoolFinish(i) ==
    /\ i \in poolBusy
    /\ poolBusy' = poolBusy \ {i}
    /\ IF tpc[i] = "building" /\ wake[i] = "none"
       THEN /\ wake' = [wake EXCEPT ![i] = "result"]
            /\ ready' = Append(ready, StepOf(i))
       ELSE UNCHANGED <<wake, ready>>
    /\ UNCHANGED <<arcs, harvestVars, streamVars, mainVars>>
    /\ UNCHANGED <<config, srcLen, pageLeft, pc, run, rec, tpc, cbs, running_tasks, waitGen,
                   gatherLeft, semaphore, semWaiters, poolQueue, stats, built, upload,
                   exc>>

\* main.py:347-365: wait_for's timeout expires first.  The future is
\* cancelled: a work item no worker has taken may be dropped from the queue
\* (or is already past cancelling), one that is executing keeps its worker.
BuildTimeout(i) ==
    /\ run = "idle"
    /\ tpc[i] = "building" /\ wake[i] = "none"
    /\ wake' = [wake EXCEPT ![i] = "timeout"]
    /\ ready' = Append(ready, StepOf(i))
    /\ \E dropped \in BOOLEAN :
          poolQueue' = IF dropped THEN SelectSeq(poolQueue, LAMBDA j : j # i) ELSE poolQueue
    /\ UNCHANGED <<arcs, harvestVars, streamVars, mainVars>>
    /\ UNCHANGED <<config, srcLen, pageLeft, pc, run, rec, tpc, cbs, running_tasks, waitGen,
                   gatherLeft, semaphore, semWaiters, poolBusy, stats, built, upload,
                   exc>>

\* ------------------------------------------------------------ the client
\* create_or_update_arc ends and the awaiting task is woken; the outcome
\* reaches the program when the task resumes (TaskStep).
UploadDone(i) ==
    /\ run = "idle"
    /\ tpc[i] = "uploading" /\ wake[i] = "none"
    /\ wake' = [wake EXCEPT ![i] = "result"]
    /\ ready' = Append(ready, StepOf(i))
    /\ UNCHANGED <<arcs, harvestVars, streamVars, mainVars>>
    /\ UNCHANGED <<config, srcLen, pageLeft, pc, run, rec, tpc, cbs, running_tasks, waitGen,
                   gatherLeft, semaphore, semWaiters, poolQueue, poolBusy, stats,
                   built, upload, exc>>

\* ------------------------------------ stream_investigation_datasets, in rows
\* The generator run on a database, its consumer pulling every item: pages
\* of one row and of two.
StreamConfigs == {[LongConfig EXCEPT !.db_batch_size = b] : b \in 1..2}

StreamInit ==
    /\ config \in StreamConfigs
    /\ db \in Databases
    /\ srcLen = Len(db.inv)
    /\ Entered
    /\ NotHarvesting
    /\ cur = 0
    /\ spc = "execute"
    /\ rows = << >>
    /\ study_rows = << >>
    /\ studies_by_inv = NoStudies
    /\ assays_by_study = NoAssays
    /\ nxt = 0
    /\ yielded = << >>
    /\ fetches = 0
    /\ error = "none"

\* The values of column id in a sequence of rows.
ids(seq) == {seq[n].id : n \in 1..Len(seq)}

\* main.py:176  await cur.execute(SELECT ... FROM "ARC_Investigation")
SExecute ==
    /\ spc = "execute"
    /\ spc' = "fetchmany"
    /\ UNCHANGED <<db, cur, rows, study_rows, studies_by_inv, assays_by_study, nxt,
                   yielded, fetches, error>>
    /\ UNCHANGED <<arcs, harvestVars, runVars, mainVars>>

\* main.py:179-181  rows = await cur.fetchmany(batch_size); an empty page ends
\* the generator.
SFetchMany ==
    /\ spc = "fetchmany"
    /\ LET page == SubSeq(db.inv, cur + 1, Min(cur + config.db_batch_size, Len(db.inv)))
       IN /\ rows' = page
          /\ cur' = cur + Len(page)
          /\ spc' = IF page = << >> THEN "stopped" ELSE "studies"
    /\ fetches' = fetches + 1
    /\ UNCHANGED <<db, study_rows, studies_by_inv, assays_by_study, nxt, yielded, error>>
    /\ UNCHANGED <<arcs, harvestVars, runVars, mainVars>>

\* The studies bucketed by their own id.
StudyKeyOwnId(s) == s.id

\* main.py:201  studies_by_inv[s["investigation_id"]].append(s)
StudyKey(s) == s.investigation_id

\* main.py:183-206: the studies of the page's investigations, bucketed;
\* assays_by_study starts empty and stays so if there is no study.
SFetchStudies ==
    /\ spc = "studies"
    /\ LET found == SelectSeq(db.study, LAMBDA s : s.investigation_id \in ids(rows))
       IN /\ study_rows' = found
          /\ studies_by_inv' =
                [d \in InvIds |-> SelectSeq(found, LAMBDA s : StudyKey(s) = d)]
          /\ spc' = IF found # << >> THEN "assays" ELSE "yield"
    /\ assays_by_study' = NoAssays
    /\ nxt' = 1
    /\ UNCHANGED <<db, cur, rows, yielded, fetches, error>>
    /\ UNCHANGED <<arcs, harvestVars, runVars, mainVars>>

\* main.py:207-213: the assays of the page's studies, bucketed by study_id.
SFetchAssays ==
    /\ spc = "assays"
    /\ LET found == SelectSeq(db.assay, LAMBDA a : a.study_id \in ids(study_rows))
       IN assays_by_study' =
             [t \in StudyIds |-> SelectSeq(found, LAMBDA a : a.study_id = t)]
    /\ spc' = "yield"
    /\ UNCHANGED <<db, cur, rows, study_rows, studies_by_inv, nxt, yielded, fetches,
                   error>>
    /\ UNCHANGED <<arcs, harvestVars, runVars, mainVars>>

\* main.py:215-217: the next row of the page with its studies and the page's
\* assays; after the last row the loop goes back to fetchmany.
SYield ==
    /\ spc = "yield"
    /\ yielded' = Append(yielded, [inv_row |-> rows[nxt],
                                    studies |-> studies_by_inv[rows[nxt].id],
                                    assays_by_study |-> assays_by_study])
    /\ nxt' = nxt + 1
    /\ spc' = IF nxt = Len(rows) THEN "fetchmany" ELSE "yield"
    /\ UNCHANGED <<db, cur, rows, study_rows, studies_by_inv, assays_by_study, fetches,
                   error>>
    /\ UNCHANGED <<arcs, harvestVars, runVars, mainVars>>

\* A failed detail query passed over: the page is yielded with what there is.
OnChildErrorGoOn == "yield"

\* main.py:192-213: nothing catches an exception of detail_cur.execute or
\* fetchall; it leaves the generator.
OnChildError == "failed"

\* The database fails one of the two detail queries.
SChildFail ==
    /\ spc \in {"studies", "assays"}
    /\ error' = spc
    /\ spc' = OnChildError
    /\ nxt' = 1
    /\ UNCHANGED <<db, cur, rows, study_rows, studies_by_inv, assays_by_study, yielded,
                   fetches>>
    /\ UNCHANGED <<arcs, harvestVars, runVars, mainVars>>

\* The database fails fetchmany on the outer cursor.
SFetchFail ==
    /\ spc = "fetchmany"
    /\ error' = "fetchmany"
    /\ spc' = "failed"
    /\ UNCHANGED <<db, cur, rows, study_rows, studies_by_inv, assays_by_study, nxt,
                   yielded, fetches>>
    /\ UNCHANGED <<arcs, harvestVars, runVars, mainVars>>

StreamNext ==
    \/ SExecute
    \/ SFetchMany
    \/ SFetchStudies
    \/ SFetchAssays
    \/ SYield
    \/ SChildFail
    \/ SFetchFail

StreamSpec == StreamInit /\ [][StreamNext]_vars

\* ------------------------------------------------- build_single_arc_task
RECURSIVE decimal(_)
\* str(n) for any natural number
decimal(n) == IF n < 10 THEN str(n) ELSE decimal(n \div 10) \o str(n % 10)

\* mapper.map_investigation, map_study, map_assay: identifier <- str(row.id)
map_investigation(row) == [Identifier |-> decimal(row.id), RegisteredStudies |-> << >>]
map_study(row) == [Identifier |-> decimal(row.id), RegisteredAssays |-> << >>]
map_assay(row) == [Identifier |-> decimal(row.id)]

\* Every assay of the page taken for the study's.
assays_of_page(by_study, study_row) ==
    LET RECURSIVE flat(_)
        flat(n) == IF n = 0 THEN << >>
                   ELSE flat(n - 1) \o by_study[SetToSeq(DOMAIN by_study)[n]]
    IN flat(Cardinality(DOMAIN by_study))

\* main.py:151  assays_by_study.get(study_row["id"], [])
assays_rows(by_study, study_row) ==
    IF study_row.id \in DOMAIN by_study THEN by_study[study_row.id] ELSE << >>

\* main.py:147-154  one study of the loop: mapped, with an assay registered
\* for each of its assay rows.
built_study(study_row, by_study) ==
    LET found == assays_rows(by_study, study_row)
    IN [map_study(study_row) EXCEPT
          !.RegisteredAssays = [n \in 1..Len(found) |-> map_assay(found[n])]]

\* main.py:135-156
build_single_arc_task(investigation_row, studies, by_study) ==
    [map_investigation(investigation_row) EXCEPT
       !.RegisteredStudies = [k \in 1..Len(studies) |-> built_study(studies[k], by_study)]]

\* The ARC of the next yielded item is built, from the item's row, its
\* studies and the assays map of its page.
SBuild ==
    /\ Len(arcs) < Len(yielded)
    /\ LET item == yielded[Len(arcs) + 1]
       IN arcs' = Append(arcs, build_single_arc_task(item.inv_row, item.studies,
                                                     item.assays_by_study))
    /\ UNCHANGED <<runVars, streamVars, mainVars, harvestVars>>

BuildNext ==
    \/ StreamNext
    \/ SBuild

\* The generator's items, each built into its ARC.
BuildSpec == StreamInit /\ [][BuildNext]_vars

Next ==
    \/ PFetch
    \/ FetchDone
    \/ PPull
    \/ PGate
    \/ PSpawn
    \/ PDrain
    \/ PShutdown
    \/ PResume
    \/ RunDiscard
    \/ RunWaitCb
    \/ RunGatherCb
    \/ \E i \in Tasks : TaskStep(i)
    \/ PoolStart
    \/ \E i \in Tasks : PoolFinish(i)
    \/ \E i \in Tasks : BuildTimeout(i)
    \/ \E i \in Tasks : UploadDone(i)

Spec == Init /\ [][Next]_vars

\* Every step the event loop, the pool, the database and the API server can
\* take is eventually taken: the loop runs what is ready, and every fetch,
\* build and upload comes to an end.
FairSpec == Spec /\ WF_vars(Next)

LongSpec == LongInit /\ [][Next]_vars

\* ----------------------------------------- run_conversion, main, asyncio.run
\* main.py:448  the await inside `async for` raises: the database fails
\* fetchmany or one of the page's detail queries.
FetchFail ==
    /\ run = "idle" /\ pc = "fetch"
    /\ pc' = "interrupted"
    /\ ready' = Append(ready, StepOf(0))
    /\ UNCHANGED <<arcs, harvestVars, streamVars, mainVars>>
    /\ UNCHANGED <<config, srcLen, pageLeft, run, rec, tpc, wake, cbs, running_tasks, waitGen,
                   gatherLeft, semaphore, semWaiters, poolQueue, poolBusy, stats,
                   built, upload, exc>>

\* The tasks a cancelled gather cancels that are suspended with no wake-up
\* scheduled yet: each gets one.
Suspended == {i \in Tasks : tpc[i] \in {"sem_wait", "building", "uploading"} /\ wake[i] = "none"}

\* main.py:474  cancelling the awaited gather cancels every child that is not
\* done.
CancelledByGather == {i \in Tasks : tpc[i] \notin {"none", "done"}}

\* main.py:565  asyncio.run cancels the task running main() (SIGINT) while
\* the producer is suspended.  At the fetch (448) and at asyncio.wait (455)
\* only the awaited future is cancelled and the producer is scheduled with
\* CancelledError; at gather (474) the children are cancelled and the
\* producer goes on waiting for them; while run_conversion closes its
\* connection (490-500) the closing goes on with the exception.
Cancel ==
    /\ run = "idle" /\ ~cancelled
    /\ pc \in {"fetch", "fetched", "waiting", "woken", "gathering", "gathered",
               "gather_raised", "returned", "raised"}
    /\ cancelled' = TRUE
    /\ pc' = CASE pc \in {"fetch", "fetched", "waiting", "woken", "gathered"} -> "interrupted"
               [] pc \in {"returned", "raised"} -> "raised"
               [] OTHER -> pc
    /\ IF pc = "gathering"
       THEN /\ ready' = ready \o [n \in 1..Cardinality(Suspended \cap CancelledByGather) |->
                                    StepOf(SetToSeq(Suspended \cap CancelledByGather)[n])]
            /\ wake' = [i \in Tasks |-> IF i \in CancelledByGather THEN "cancel" ELSE wake[i]]
            /\ \E dropped \in BOOLEAN :
                  poolQueue' = IF dropped
                               THEN SelectSeq(poolQueue, LAMBDA j : j \notin CancelledByGather)
                               ELSE poolQueue
       ELSE /\ ready' = IF pc \in {"fetch", "waiting"} THEN Append(ready, StepOf(0))
                        ELSE ready
            /\ UNCHANGED <<wake, poolQueue>>
    /\ UNCHANGED <<arcs, harvestVars, streamVars, stdout>>
    /\ UNCHANGED <<config, srcLen, pageLeft, run, rec, tpc, cbs, running_tasks, waitGen,
                   gatherLeft, semaphore, semWaiters, poolBusy, stats, built, upload, exc>>

\* The loop resumes the producer with the exception: it leaves the loop of
\* process_investigations (asyncio.wait's finally-block removes its
\* callbacks) and reaches the end of the `with` of the executor.  No handler
\* stands between line 448 and line 474 and none cancels the tasks.
PThrow ==
    /\ run = "idle" /\ ready # << >> /\ Head(ready) = StepOf(0)
    /\ pc = "interrupted"
    /\ ready' = Tail(ready)
    /\ run' = "P"
    /\ pc' = "unwinding"
    /\ cbs' = [i \in Tasks |-> SelectSeq(cbs[i], LAMBDA c : c.k # "wait")]
    /\ UNCHANGED <<arcs, harvestVars, streamVars, mainVars>>
    /\ UNCHANGED <<config, srcLen, pageLeft, rec, tpc, wake, running_tasks, waitGen, gatherLeft,
                   semaphore, semWaiters, poolQueue, poolBusy, stats, built, upload, exc>>

\* The loop resumes a cancelled task with CancelledError: no handler of
\* process_single_dataset takes it (main.py:357, 396, 400 name Exception
\* classes), `async with semaphore` gives back the ticket if the task holds
\* one, and the task ends cancelled, which gather takes for an exception.
TaskCancelled(i) ==
    /\ run = "idle" /\ ready # << >> /\ Head(ready) = StepOf(i)
    /\ wake[i] = "cancel"
    /\ IF tpc[i] \in {"building", "uploading"}
       THEN Exit(i, Tail(ready), stats, TRUE, semaphore)
       ELSE /\ tpc' = [tpc EXCEPT ![i] = "done"]
            /\ exc' = [exc EXCEPT ![i] = TRUE]
            /\ wake' = [wake EXCEPT ![i] = "none"]
            /\ cbs' = [cbs EXCEPT ![i] = << >>]
            /\ semWaiters' = SelectSeq(semWaiters, LAMBDA j : j # i)
            /\ ready' = Tail(ready) \o CallbackHandles(i)
            /\ UNCHANGED <<semaphore, stats>>
    /\ UNCHANGED <<arcs, harvestVars, streamVars, mainVars>>
    /\ UNCHANGED <<config, srcLen, pageLeft, pc, run, rec, running_tasks, waitGen, gatherLeft,
                   poolQueue, poolBusy, built, upload>>

\* main.py:490-501  process_investigations has returned or raised and the
\* `async with` of run_conversion awaits the closing of the cursor, the
\* connection and the client; the loop runs whatever is ready meanwhile.
\* Here the closing ends.
CloseDone ==
    /\ run = "idle" /\ pc \in {"returned", "raised"}
    /\ pc' = IF pc = "returned" THEN "closed" ELSE "closed_raised"
    /\ ready' = Append(ready, StepOf(0))
    /\ UNCHANGED <<arcs, harvestVars, streamVars, mainVars>>
    /\ UNCHANGED <<config, srcLen, pageLeft, run, rec, tpc, wake, cbs, running_tasks, waitGen,
                   gatherLeft, semaphore, semWaiters, poolQueue, poolBusy, stats,
                   built, upload, exc>>

\* main.py:535-560  the report is printed in the try-block, after
\* run_conversion returned; `except Exception` only logs.
ReportPrinted(how) == how = "closed"

\* main.py:535-560  main goes on after run_conversion: it prints the report,
\* or logs the exception, or is left by CancelledError, and the loop of
\* asyncio.run stops.
MainEnd ==
    /\ run = "idle" /\ ready # << >> /\ Head(ready) = StepOf(0)
    /\ pc \in {"closed", "closed_raised"}
    /\ ready' = Tail(ready)
    /\ run' = "exit"
    /\ pc' = IF pc = "closed" THEN "reported"
             ELSE IF cancelled THEN "cancelled" ELSE "fatal"
    /\ stdout' = IF ReportPrinted(pc) THEN Append(stdout, to_jsonld(stats)) ELSE stdout
    /\ UNCHANGED <<arcs, harvestVars, streamVars, cancelled>>
    /\ UNCHANGED <<config, srcLen, pageLeft, rec, tpc, wake, cbs, running_tasks, waitGen,
                   gatherLeft, semaphore, semWaiters, poolQueue, poolBusy, stats,
                   built, upload, exc>>

RunNext ==
    \/ Next
    \/ FetchFail
    \/ Cancel
    \/ PThrow
    \/ \E i \in Tasks : TaskCancelled(i)
    \/ CloseDone
    \/ MainEnd

\* A whole run of main(): the conversion with a database that may fail and a
\* cancellation that may arrive.
RunSpec == Init /\ [][RunNext]_vars

\* ---------------------------------- CSWClient.get_records and run_harvest
\* The records of the catalogue are numbered 1..size and record n has the
\* Dublin Core identifier n.  None is 0; a placeholder key of owslib
\* ("owslib_random_<k>") is a negative number.
NoId == 0
owslib_random(n) == 0 - n
startswith_owslib_random(id) == id < 0

\* An identifier of the catalogue that is not the one of record n.
OtherId(n) == n + MaxRecords + 1

\* What gmd:fileIdentifier of an ISO record may hold, compared with the
\* record's Dublin Core identifier: the same, another identifier, nothing, or
\* a string of the placeholder's form.
IdKinds == {"own", "other", "missing", "placeholder"}

fileIdentifier(n, k) ==
    CASE k = "own" -> n
      [] k = "other" -> OtherId(n)
      [] k = "missing" -> NoId
      [] k = "placeholder" -> owslib_random(n)

\* What is wrong with an ISO record when it is parsed.
Defects == {"none", "no_title", "no_abstract", "other"}

\* The servers: up to MaxRecords records; positions counted from 1 as CSW
\* 2.0.2 has it (a request for position 0 is answered from the first record)
\* or taken as offsets from 0; matches reported as an integer or not.
Catalogues ==
    [size : 0..MaxRecords, first : {0, 1}, int_matches : BOOLEAN]

\* harvester.py:337-347  the catalogue numbers of the records the server
\* returns for startposition p and maxrecords m.
Page(c, p, m) ==
    LET from == IF c.first = 1 THEN (IF p < 1 THEN 1 ELSE p) ELSE p + 1
        to == Min(from + m - 1, c.size)
    IN [n \in 1..(IF to >= from THEN to - from + 1 ELSE 0) |-> from + n - 1]

\* self._csw.results.get("matches") after a response.
Matches(c) == IF c.int_matches THEN c.size ELSE -1

\* harvester.py:426  isinstance(matches, int)
isinstance_int(m) == m >= 0

\* run_harvest is entered (inspire_to_arc/main.py:23-42): nothing requested
\* yet.  max_records is a single record or more than any catalogue holds.
HarvestInit ==
    /\ config = LongConfig
    /\ srcLen = 0
    /\ Entered
    /\ Untracked
    /\ catalogue \in Catalogues
    /\ max_records \in {1, MaxRecords + 1}
    /\ hpc = "connect"
    /\ start_position = 0
    /\ records_yielded = 0
    /\ dc_ids = << >>
    /\ csw_records = << >>
    /\ matches = 0
    /\ idx = 0
    /\ yielded_here = 0
    /\ count = 0
    /\ items = << >>
    /\ uploads = << >>
    /\ requests = 0
    /\ failed = {}
    /\ herror = "none"

\* harvester.py:198-207 and 251-261  get_records connects; a failure is
\* raised as ConnectionError.
HConnect ==
    /\ hpc = "connect"
    /\ \E ok \in BOOLEAN :
          IF ok THEN /\ hpc' = "loop"
                     /\ UNCHANGED <<failed, herror>>
          ELSE /\ hpc' = "raised"
               /\ failed' = failed \cup {"connect"}
               /\ herror' = "ConnectionError"
    /\ UNCHANGED <<catalogue, max_records, start_position, records_yielded, dc_ids,
                   csw_records, matches, idx, yielded_here, count, items, uploads, requests>>
    /\ UNCHANGED <<arcs, runVars, streamVars, mainVars>>

\* harvester.py:291-293
_calculate_batch_size(max, sofar) == Min(PageCap, max - sofar)

\* harvester.py:348-350  _fetch_dc_ids catches the failure and returns [],
\* which _get_records_paged takes for the end (309-310).
OnDcFailure == "stopped"

\* harvester.py:302-310 and 329-350: the head of the loop and the Dublin
\* Core request of the page.
HFetchDc ==
    /\ hpc = "loop"
    /\ IF records_yielded >= max_records
       THEN /\ hpc' = "stopped"
            /\ UNCHANGED <<dc_ids, matches, requests, failed, herror>>
       ELSE \E ok \in BOOLEAN :
            /\ requests' = requests + 1
            /\ IF ok
               THEN LET page == Page(catalogue, start_position,
                                     _calculate_batch_size(max_records, records_yielded))
                    IN /\ dc_ids' = page
                       /\ matches' = Matches(catalogue)
                       /\ hpc' = IF page = << >> THEN "stopped" ELSE "iso"
                       /\ UNCHANGED <<failed, herror>>
               ELSE /\ dc_ids' = << >>
                    /\ failed' = failed \cup {"dc"}
                    /\ hpc' = OnDcFailure
                    /\ herror' = IF OnDcFailure = "raised" THEN "ConnectionError" ELSE herror
                    /\ UNCHANGED matches
    /\ UNCHANGED <<catalogue, max_records, start_position, records_yielded, csw_records, idx,
                   yielded_here, count, items, uploads>>
    /\ UNCHANGED <<arcs, runVars, streamVars, mainVars>>

\* harvester.py:352-372 and 384-388: the ISO request of the same page.  The
\* server answers with the same records; each is an MD_Metadata with the
\* fileIdentifier it has, or an object of another class (whose identifier
\* nothing reads).  A failure is raised as ConnectionError.
HFetchIso ==
    /\ hpc = "iso"
    /\ requests' = requests + 1
    /\ \E ok \in BOOLEAN :
          IF ok
          THEN LET page == Page(catalogue, start_position,
                                _calculate_batch_size(max_records, records_yielded))
               IN \E kinds \in [1..Len(page) -> IdKinds], mds \in [1..Len(page) -> BOOLEAN] :
                  /\ \A n \in 1..Len(page) : ~mds[n] => kinds[n] = "own"
                  /\ csw_records' =
                        [n \in 1..Len(page) |->
                           [pos |-> page[n],
                            identifier |-> fileIdentifier(page[n], kinds[n]),
                            md |-> mds[n]]]
                  /\ matches' = Matches(catalogue)
                  /\ hpc' = IF page = << >> THEN "advance" ELSE "records"
                  /\ idx' = 1
                  /\ count' = 0
                  /\ yielded_here' = records_yielded
                  /\ UNCHANGED <<failed, herror>>
          ELSE /\ hpc' = "raised"
               /\ failed' = failed \cup {"iso"}
               /\ herror' = "ConnectionError"
               /\ UNCHANGED <<csw_records, matches, idx, count, yielded_here>>
    /\ UNCHANGED <<catalogue, max_records, start_position, records_yielded, dc_ids, items,
                   uploads>>
    /\ UNCHANGED <<arcs, runVars, streamVars, mainVars>>

\* harvester.py:395-409  the identifier the item is reported under: the
\* Dublin Core identifier at the same index, or the ISO record's own when it
\* has one that is not a placeholder and differs.
stable_id(record, i) ==
    LET dc == IF i <= Len(dc_ids) THEN dc_ids[i]
              ELSE IF record.identifier = NoId THEN owslib_random(record.pos)
              ELSE record.identifier
    IN IF /\ record.identifier # NoId
          /\ ~startswith_owslib_random(record.identifier)
          /\ record.identifier # dc
       THEN record.identifier
       ELSE dc

\* harvester.py:413-414  a record without identifier gets the stable one.
injected(record, i) ==
    IF record.identifier = NoId THEN stable_id(record, i) ELSE record.identifier

\* Only SemanticError turned into an item.
parse_raises_caught_semantic(defect) == defect \in {"no_title", "no_abstract"}

\* harvester.py:418  `except Exception` around the parsing of one record.
parse_raises_caught(defect) == defect \in {"no_title", "no_abstract", "other"}

\* harvester.py:461-524, 534-548  _parse_iso_record: SemanticError for a
\* missing identifier, title or abstract, whatever an extractor raises, or
\* the InspireRecord with the identifier of the ISO record.
_parse_iso_record(identifier, defect) ==
    IF identifier = NoId THEN [raised |-> "no_identifier"]
    ELSE IF defect # "none" THEN [raised |-> defect]
    ELSE [raised |-> "none", identifier |-> identifier]

\* The item is treated as a record whatever it is.
is_errorNever(it) == FALSE

\* main.py:46  isinstance(item, RecordProcessingError)
is_error(it) == it.kind = "error"

\* harvester.py:390-419 with main.py:44-82: the next step of the for-loop
\* over the ISO records.  A record that is parsed or fails is yielded and
\* run_harvest handles the item before the generator goes on: an error item
\* is logged; a record is mapped and uploaded, and a failure of either is
\* logged.
HRecord ==
    /\ hpc = "records"
    /\ IF idx > Len(csw_records) \/ yielded_here >= max_records
       THEN /\ hpc' = "advance"
            /\ UNCHANGED <<idx, yielded_here, count, items, uploads, herror>>
       ELSE LET record == csw_records[idx] IN
            /\ idx' = idx + 1
            /\ IF ~record.md
               THEN UNCHANGED <<hpc, yielded_here, count, items, uploads, herror>>
               ELSE \E defect \in Defects :
                    LET res == _parse_iso_record(injected(record, idx), defect)
                        caught == res.raised # "none" /\
                                  (res.raised = "no_identifier" \/ parse_raises_caught(res.raised))
                        it == IF res.raised = "none"
                              THEN [kind |-> "record", id |-> res.identifier,
                                    pos |-> record.pos, index |-> idx, cause |-> "none"]
                              ELSE [kind |-> "error", id |-> stable_id(record, idx),
                                    pos |-> record.pos, index |-> idx, cause |-> res.raised]
                    IN IF res.raised # "none" /\ ~caught
                       THEN /\ hpc' = "raised"
                            /\ herror' = res.raised
                            /\ UNCHANGED <<yielded_here, count, items, uploads>>
                       ELSE /\ items' = Append(items, it)
                            /\ yielded_here' = IF it.kind = "record" THEN yielded_here + 1
                                               ELSE yielded_here
                            /\ count' = IF it.kind = "record" THEN count + 1 ELSE count
                            /\ IF is_error(it)
                               THEN uploads' = uploads
                               ELSE \E outcome \in {"ok", "map_raises", "upload_raises"} :
                                    uploads' = IF outcome = "map_raises" THEN uploads
                                               ELSE Append(uploads,
                                                           [item |-> Len(items) + 1,
                                                            raised |-> outcome # "ok"])
                            /\ UNCHANGED <<hpc, herror>>
    /\ UNCHANGED <<catalogue, max_records, start_position, records_yielded, dc_ids,
                   csw_records, matches, requests, failed>>
    /\ UNCHANGED <<arcs, runVars, streamVars, mainVars>>

\* harvester.py:324  start_position += len(dc_ids)
advanced(start, ids_) == start + Len(ids_)

\* The reported matches never consulted.
_all_records_fetched_never(start) == FALSE

\* harvester.py:421-426
_all_records_fetched(start) == isinstance_int(matches) /\ start >= matches

\* harvester.py:322-327: the end of a page.
HAdvance ==
    /\ hpc = "advance"
    /\ records_yielded' = records_yielded + count
    /\ start_position' = advanced(start_position, dc_ids)
    /\ hpc' = IF _all_records_fetched(advanced(start_position, dc_ids))
              THEN "stopped" ELSE "loop"
    /\ UNCHANGED <<catalogue, max_records, dc_ids, csw_records, matches, idx, yielded_here,
                   count, items, uploads, requests, failed, herror>>
    /\ UNCHANGED <<arcs, runVars, streamVars, mainVars>>

HarvestNext ==
    \/ HConnect
    \/ HFetchDc
    \/ HFetchIso
    \/ HRecord
    \/ HAdvance

HarvestSpec == HarvestInit /\ [][HarvestNext]_vars

\* run_harvest keeps pulling from the generator until it ends.
FairHarvestSpec == HarvestSpec /\ WF_vars(HarvestNext)

\* ------------------------------------------------------------ vocabulary
\* The records the source has yielded so far, by position.
Yielded == 1..stats.found_datasets

Count(seq, x) == Cardinality({n \in 1..Len(seq) : seq[n] = x})
InFailedIds(i) == Count(stats.failed_ids, str(rec[i].id)) > 0
WithId(d) == {i \in Yielded : rec[i].id = d}

\* Tasks spawned and not finished.
Live == {i \in Tasks : tpc[i] \notin {"none", "done"}}

\* Records submitted to the pool whose build has not returned, timed out or
\* failed.
InBuild == {i \in Tasks : tpc[i] = "building" /\ wake[i] = "none"}

\* Records pulled from the source whose task has not finished.
Unfinished == {i \in Yielded : tpc[i] # "done"}

\* Source position of the oldest task still running.
OldestLive == CHOOSE i \in Live : \A j \in Live : i <= j

\* A failure of any kind happened to record i.
RecordFailed(i) ==
    \/ OverLimit(rec[i])
    \/ built[i] \in {"timeout", "raise", "empty"}
    \/ upload[i] \in {"api_error", "bad_response"}

Returned == pc = "returned"

\* ----------------------------------------------------------------- claims

\* C1 (as stated): after process_investigations returns, every yielded record
\* is in exactly one of: create_or_update_arc was called for it, or str(id) is
\* in failed_ids.  Refuted: an upload that fails is called and recorded failed.
C1_CalledXorFailed ==
    Returned => \A i \in Yielded : (upload[i] # "none") <=> ~InFailedIds(i)

\* C1 (amended): after process_investigations returns, every yielded record
\* either had create_or_update_arc return a response that was handled without
\* error, or had str(id) appended to failed_ids once, never both and never
\* neither: per id, the entries of failed_ids and the records uploaded
\* without error add up to the records yielded with that id.
C1_UploadedXorFailed ==
    Returned =>
        /\ \A d \in 1..NumIds :
              Count(stats.failed_ids, str(d))
                + Cardinality({i \in WithId(d) : upload[i] = "ok"})
              = Cardinality(WithId(d))
        /\ \A i \in Yielded : upload[i] = "ok" => ~RecordFailed(i)

\* A run that returned with one upload refused and one accepted.
C1_Witness ==
    /\ Returned
    /\ \E i, j \in Yielded : upload[i] = "api_error" /\ upload[j] = "ok"

\* C2: a failure of any kind (size limit, build timeout, build exception,
\* empty build, ApiClientError, any other exception) is recorded in failed_ids
\* and counted in failed_datasets by the time the task is done, leaves no
\* exception in the task, and does not abort the run: the producer never
\* unwinds with an exception, and when it returns it has spawned and finished
\* a task for every row of the source.
C2_FailureIsolated ==
    /\ \A i \in Tasks : ~exc[i]
    /\ pc \notin {"gather_raised", "unwinding", "raised"}
    /\ \A i \in Tasks : tpc[i] = "done" /\ RecordFailed(i) => InFailedIds(i)
    /\ stats.failed_datasets = Cardinality({i \in Tasks : tpc[i] = "done" /\ RecordFailed(i)})
    /\ Returned => /\ stats.found_datasets = srcLen
                   /\ \A i \in 1..srcLen : tpc[i] = "done"

\* A run that returned after the first record failed and a later one was
\* uploaded.
C2_Witness ==
    /\ Returned
    /\ \E i, j \in Yielded : i < j /\ RecordFailed(i) /\ upload[j] = "ok"

\* C3: at every moment the running_tasks set, and with it the number of tasks
\* spawned and not finished, is at most max_concurrent_tasks.
C3_RunningTasksBounded ==
    /\ Cardinality(running_tasks) <= config.max_concurrent_tasks
    /\ Cardinality(Live) <= config.max_concurrent_tasks

\* The producer is held at the gate by a full set of unfinished tasks.
C3_Witness ==
    /\ pc = "waiting"
    /\ Cardinality(Live) = config.max_concurrent_tasks
    /\ config.max_concurrent_tasks = 2

\* C4 (as stated): the producer never pulls a record from the source while
\* the running-task set is full.  Refuted: the gate comes after the pull.
C4_NoPullWhileFull ==
    [][stats.found_datasets' # stats.found_datasets
         => Cardinality(running_tasks) < config.max_concurrent_tasks]_vars

\* C4 (amended): the gate stands between the pull and the spawn.  The
\* producer never spawns a task while the running-task set is full: it waits
\* until a task has completed and left the set; at most one record is
\* pulled and not yet spawned.
C4_NoSpawnWhileFull ==
    [][(\E i \in Tasks : tpc[i] = "none" /\ tpc'[i] = "new")
         => /\ Cardinality(running_tasks) < config.max_concurrent_tasks
            /\ stats.found_datasets = Cardinality({i \in Tasks : tpc[i] # "none"}) + 1]_vars

\* The producer is past a wait and about to spawn the record it held.
C4_Witness == pc = "spawn" /\ waitGen > 0

\* C5: process_investigations returns only when every spawned task has
\* finished, one for every row of the source, and, every fetch, build and
\* upload coming to an end, it does return.
C5_ReturnsAfterAllTasks ==
    /\ [](Returned => /\ stats.found_datasets = srcLen
                      /\ \A i \in Yielded : tpc[i] = "done"
                      /\ Live = {})
    /\ <>Returned

\* The producer is in gather while a task is still uploading.
C5_Witness == pc = "gathering" /\ \E i \in Tasks : tpc[i] = "uploading"

\* C6: create_or_update_arc is called for a record only after its build
\* returned a non-empty JSON string; a record whose build timed out, raised
\* or returned nothing is never uploaded.
C6_UploadAfterBuild ==
    \A i \in Tasks : upload[i] # "none" => built[i] = "json"

\* One record is being uploaded, another ended on an empty build without an
\* upload.
C6_Witness ==
    \E i, j \in Tasks : /\ upload[i] = "called"
                        /\ built[j] = "empty" /\ tpc[j] = "done" /\ upload[j] = "none"

\* C7 (as stated): after the run found_datasets = successful +
\* failed_datasets with successful the number of create_or_update_arc calls
\* made.  Refuted: a call that fails is a call made and a failed record.
C7_FoundIsCallsPlusFailed ==
    Returned => stats.found_datasets
                  = Cardinality({i \in Tasks : upload[i] # "none"}) + stats.failed_datasets

\* C7 (amended): after the run found_datasets = successful +
\* failed_datasets with successful the number of create_or_update_arc calls
\* that returned a response handled without error.
C7_FoundIsUploadedPlusFailed ==
    Returned => stats.found_datasets
                  = Cardinality({i \in Tasks : upload[i] = "ok"}) + stats.failed_datasets

\* A run of three records that returned with some uploaded and some failed.
C7_Witness ==
    /\ Returned /\ stats.found_datasets = 3
    /\ stats.failed_datasets > 0
    /\ \E i \in Tasks : upload[i] = "ok"

\* C8: failed_datasets = len(failed_ids) in every reachable state.
C8_FailedCountIsLen == stats.failed_datasets = Len(stats.failed_ids)

\* A failure is recorded while other tasks are in their build or upload.
C8_Witness ==
    /\ stats.failed_datasets >= 1
    /\ \E i \in Tasks : tpc[i] \in {"building", "uploading"}

\* C9: a record's id is appended to failed_ids at most once: failed_ids holds
\* an id no more often than the source yielded it.
C9_FailedIdsOncePerRecord ==
    \A d \in 1..NumIds : Count(stats.failed_ids, str(d)) <= Cardinality(WithId(d))

\* Every record of a three-row source failed, each recorded once.
C9_Witness == Returned /\ Len(stats.failed_ids) = 3

\* C10 (as stated): the records in the Building phase (submitted to the pool,
\* not yet returned, timed out or failed) are at most
\* max_concurrent_arc_builds.  Refuted: the tasks submit up to
\* max_concurrent_tasks builds and the pool queues them.
C10_InBuildWithinBuildCap ==
    Cardinality(InBuild) <= config.max_concurrent_arc_builds

\* C10 (amended): the builds that pool workers execute at one time are at
\* most max_concurrent_arc_builds; the records in the Building phase are at
\* most max_concurrent_tasks, the rest of them queued in the pool.
C10_WorkersWithinBuildCap ==
    /\ Cardinality(poolBusy) <= config.max_concurrent_arc_builds
    /\ Cardinality(InBuild) <= config.max_concurrent_tasks

\* The only worker is busy and a second submitted build waits in the queue.
C10_Witness ==
    /\ Cardinality(poolBusy) = config.max_concurrent_arc_builds
    /\ Cardinality(InBuild) > config.max_concurrent_arc_builds
    /\ poolQueue # << >>

\* C11 (as stated): the source position of the most recently pulled record
\* minus the source position of the oldest still-running task never exceeds
\* max_concurrent_tasks.  Refuted: the gate counts tasks, so newer tasks that
\* finish let the producer move on while the oldest one is still running.
C11_WindowBounded ==
    Live # {} => stats.found_datasets - OldestLive <= config.max_concurrent_tasks

\* C11 (amended): the producer is held back by the number of unfinished
\* tasks, not by the position of the oldest one: the records pulled and not
\* finished are at most max_concurrent_tasks + 1, the running tasks and the
\* one record held at the gate.
C11_UnfinishedBounded ==
    Cardinality(Unfinished) <= config.max_concurrent_tasks + 1

\* A full set of running tasks, the oldest of them three positions behind
\* the record the producer holds at the gate.
C11_Witness ==
    /\ Live # {}
    /\ stats.found_datasets - OldestLive > config.max_concurrent_tasks
    /\ Cardinality(Unfinished) = config.max_concurrent_tasks + 1

\* Record i has more studies than max_studies or more assays than max_assays.
TooBig(i) ==
    \/ Len(rec[i].studies) > config.max_studies
    \/ SumSeq(rec[i].studies) > config.max_assays

\* Task i holds its ticket and is past the size check.
Validated(i) == tpc[i] \in {"building", "uploading", "done"}

\* C12: a record over max_studies or over max_assays is marked Failed once,
\* is never submitted to the pool and never uploaded; a record with exactly
\* max_studies studies and at most max_assays assays passes the check and
\* is submitted to the pool.  Every entry of failed_ids stands for one
\* finished record that is over a limit or failed in its build or upload.
C12_LimitsDecideBuild ==
    /\ \A i \in Tasks :
          Validated(i) =>
             IF TooBig(i)
             THEN /\ tpc[i] = "done"
                  /\ built[i] = "none" /\ upload[i] = "none"
                  /\ i \notin poolBusy
                  /\ \A n \in 1..Len(poolQueue) : poolQueue[n] # i
                  /\ InFailedIds(i)
             ELSE built[i] # "none"
    /\ \A d \in 1..NumIds :
          Count(stats.failed_ids, str(d))
            = Cardinality({i \in WithId(d) :
                             /\ tpc[i] = "done"
                             /\ \/ TooBig(i)
                                \/ built[i] \in {"timeout", "raise", "empty"}
                                \/ upload[i] \in {"api_error", "bad_response"}})

\* A record exactly at both limits was uploaded; one with two studies and one
\* with two assays ended failed without a build.
C12_Witness ==
    \E i, j, k \in Tasks :
        /\ rec[i].studies = <<1>> /\ upload[i] = "ok"
        /\ rec[j].studies = <<0, 0>> /\ tpc[j] = "done" /\ built[j] = "none"
        /\ rec[k].studies = <<2>> /\ tpc[k] = "done" /\ built[k] = "none"

\* Record i ended failed for another reason than a build timeout.
FailedOtherwise(i) ==
    /\ tpc[i] = "done"
    /\ \/ TooBig(i)
       \/ built[i] \in {"raise", "empty"}
       \/ upload[i] \in {"api_error", "bad_response"}

\* C13: a record whose build did not finish within the timeout is marked
\* Failed, its id appended to failed_ids once and failed_datasets incremented
\* once, and create_or_update_arc is never called for it, whether or not its
\* worker is still executing or completes afterwards.
C13_TimeoutFailsOnce ==
    /\ \A i \in Tasks :
          (wake[i] = "timeout" \/ built[i] = "timeout") => upload[i] = "none"
    /\ \A i \in Tasks : built[i] = "timeout" => tpc[i] = "done" /\ ~exc[i]
    /\ \A d \in 1..NumIds :
          Count(stats.failed_ids, str(d))
            = Cardinality({i \in WithId(d) : built[i] = "timeout"})
              + Cardinality({i \in WithId(d) : FailedOtherwise(i)})
    /\ stats.failed_datasets
         = Cardinality({i \in Tasks : built[i] = "timeout"})
           + Cardinality({i \in Tasks : FailedOtherwise(i)})

\* A record is marked failed on its timeout while the worker still executes
\* its build, and the run goes on with another record uploaded.
C13_Witness ==
    \E i, j \in Tasks :
        /\ built[i] = "timeout" /\ tpc[i] = "done" /\ i \in poolBusy
        /\ stats.failed_ids = <<str(rec[i].id)>>
        /\ upload[j] = "ok"

\* The ids of the records in the order the source yielded them.
EncounterIds == [n \in Yielded |-> str(rec[n].id)]

\* Every record reached its upload and the server refused it.
AllUploadsRefused == \A i \in Yielded : upload[i] = "api_error"

\* C15 (as stated): every upload refused, after the run found_datasets = N,
\* failed_datasets = N and failed_ids lists the ids in the order the source
\* yielded them, in ProcessingStats or at least in the report.  Refuted:
\* ProcessingStats holds them in the order the tasks failed, the report in
\* string order.
C15_FailedIdsInSourceOrder ==
    Returned /\ AllUploadsRefused =>
        /\ stats.found_datasets = srcLen
        /\ stats.failed_datasets = srcLen
        /\ \/ stats.failed_ids = EncounterIds
           \/ to_jsonld(stats).failed_ids = EncounterIds

\* C15 (amended): every upload refused, after the run found_datasets = N,
\* failed_datasets = N, and failed_ids holds every input id once per
\* record; the report lists them in ascending string order and, N > 0, with
\* status FailedActionStatus.
C15_AllRefusedAllFailed ==
    Returned /\ AllUploadsRefused =>
        LET listed == to_jsonld(stats).failed_ids IN
        /\ stats.found_datasets = srcLen
        /\ stats.failed_datasets = srcLen
        /\ Len(stats.failed_ids) = srcLen /\ Len(listed) = srcLen
        /\ \A d \in 1..NumIds :
              /\ Count(stats.failed_ids, str(d)) = Cardinality(WithId(d))
              /\ Count(listed, str(d)) = Cardinality(WithId(d))
        /\ \A n \in 1..(Len(listed) - 1) : ord(listed[n]) <= ord(listed[n + 1])
        /\ srcLen > 0 => to_jsonld(stats).status = "schema:FailedActionStatus"

\* Three uploads refused, recorded in an order that is neither the source's
\* nor the report's.
C15_Witness ==
    /\ Returned /\ AllUploadsRefused /\ stats.found_datasets = 3
    /\ stats.failed_ids # EncounterIds
    /\ stats.failed_ids # to_jsonld(stats).failed_ids

\* C14: on a build timeout the pool job is cancelled and its worker freed: a
\* record whose build timed out occupies no pool worker, so that a build
\* submitted next does not wait for it.  Violated by the code: wait_for
\* cancels the awaited future only; a work item that a worker process
\* executes runs to its end and keeps the worker.
C14_TimeoutFreesWorker ==
    \A i \in Tasks : (wake[i] = "timeout" \/ built[i] = "timeout") => i \notin poolBusy

\* C18: when a detail query (studies or assays) of a page fails, the
\* generator ends with the error, no record of that page is yielded, and the
\* records yielded are those of all earlier pages, in order.
C18_FailedPageYieldsNothing ==
    error \in {"studies", "assays"} =>
        /\ spc = "failed"
        /\ rows # << >>
        /\ Len(yielded) = cur - Len(rows)
        /\ \A n \in 1..Len(yielded) : yielded[n].inv_row = db.inv[n]

\* The assays query fails on the second page, after the two records of the
\* first page were yielded.
C18_Witness ==
    /\ error = "assays" /\ spc = "failed"
    /\ config.db_batch_size = 2 /\ Len(yielded) = 2 /\ Len(rows) = 1

\* The rows of ARC_Study that belong to investigation d, in table order.
StudiesOf(d) == SelectSeq(db.study, LAMBDA s : s.investigation_id = d)

\* C19: the generator yields the rows of ARC_Investigation in cursor order,
\* none twice and none left out when it stops, each with exactly the study
\* rows whose investigation_id is its id (none: the empty list) and with the
\* assays of those studies; it stops at the first empty page.
C19_EveryRowOnceWithItsStudies ==
    /\ Len(yielded) <= Len(db.inv)
    /\ \A n \in 1..Len(yielded) :
          /\ yielded[n].inv_row = db.inv[n]
          /\ yielded[n].studies = StudiesOf(db.inv[n].id)
          /\ \A k \in 1..Len(yielded[n].studies) :
                LET t == yielded[n].studies[k].id
                IN yielded[n].assays_by_study[t]
                     = SelectSeq(db.assay, LAMBDA a : a.study_id = t)
    /\ spc = "stopped" =>
          /\ Len(yielded) = Len(db.inv)
          /\ rows = << >>
          /\ fetches = ((Len(db.inv) + config.db_batch_size - 1)
                          \div config.db_batch_size) + 1

\* Three rows were streamed in pages of two, two of them with the same id;
\* one has no study, one has two.
C19_Witness ==
    /\ spc = "stopped" /\ Len(yielded) = 3 /\ config.db_batch_size = 2
    /\ yielded[1].inv_row.id = yielded[3].inv_row.id
    /\ \E n, m \in 1..3 : yielded[n].studies = << >> /\ Len(yielded[m].studies) = 2

\* ------------------------------------------------------------------- C20
\* main.py:179  the page a record came with: the records are fetched
\* db_batch_size at a time, in the order they are pulled.
PageOf(i) == (i - 1) \div config.db_batch_size + 1

\* The pages with data in memory: the page the generator fetched last (its
\* rows, studies_by_inv and assays_by_study, main.py:179-213) and the page of
\* every task that has not ended, whose DatasetContext holds the record's
\* row, its studies and the assays map of its whole page (main.py:457-465).
PagesInMemory ==
    (IF stats.found_datasets + pageLeft > 0
     THEN {PageOf(stats.found_datasets + pageLeft)} ELSE {})
    \cup {PageOf(i) : i \in Live}

\* C20: the source fetches pages of at most db_batch_size rows and at no
\* moment of a run is the data of more than two pages in memory.
C20_AtMostTwoPages ==
    /\ pageLeft <= config.db_batch_size
    /\ Cardinality(PagesInMemory) <= 2

\* ------------------------------------------------------------------- C17
\* main() has ended on its own, not by cancellation.
MainEnded == pc \in {"reported", "fatal"}

\* C17: every run that ends prints the report, also when the pipeline ended
\* with a failure of the database, and the report lists the ids that failed.
C17_ReportAlwaysPrinted ==
    MainEnded => /\ Len(stdout) = 1
                 /\ stdout[1].failed_datasets = stats.failed_datasets
                 /\ stdout[1].failed_ids = sorted(stats.failed_ids)

\* ------------------------------------------------------------------- C16
\* The producer has received the CancelledError.
CancelObserved ==
    cancelled /\ pc \in {"unwinding", "raised", "closed_raised", "cancelled"}

\* C16: once the cancellation of the run has reached the producer no task
\* begins an upload, whatever phase it was in when the cancellation came.
C16_NoUploadAfterCancel ==
    [][CancelObserved =>
         \A i \in Tasks : upload'[i] = "called" => upload[i] = "called"]_vars

\* ------------------------------------------------------------------- C28
\* The tasks inside `async with semaphore`.
Holding == {i \in Tasks : tpc[i] \in {"building", "uploading"}}

\* C28: a task holds one ticket from entering `async with semaphore` to its
\* end, whatever way it ends; no task ever waits for a ticket; the semaphore
\* is at full capacity again when process_investigations returns.
C28_TicketsBalanced ==
    /\ semWaiters = << >>
    /\ \A i \in Tasks : tpc[i] # "sem_wait"
    /\ semaphore + Cardinality(Holding) = config.max_concurrent_tasks
    /\ Returned => semaphore = config.max_concurrent_tasks

\* A returned run of three records that ended in three ways: refused for its
\* size, failed in the build, uploaded.
C28_Witness ==
    /\ Returned
    /\ semaphore = config.max_concurrent_tasks
    /\ \E i, j, k \in Yielded :
          /\ OverLimit(rec[i])
          /\ built[j] = "raise"
          /\ upload[k] = "ok"

\* ------------------------------------------------------------------- C29
RECURSIVE StudiesUpTo(_)
\* sum of len(studies) over the first n records the source yielded
StudiesUpTo(n) == IF n = 0 THEN 0 ELSE num_studies(rec[n]) + StudiesUpTo(n - 1)

RECURSIVE AssaysUpTo(_)
\* sum of the assay counts of the first n records the source yielded
AssaysUpTo(n) == IF n = 0 THEN 0 ELSE num_assays(rec[n]) + AssaysUpTo(n - 1)

\* C29: when the run ends total_studies and total_assays are the sums over
\* every record the source yielded, failed or not; a record is counted as
\* soon as its task is past the semaphore, before its size is checked.
C29_TotalsCountEveryRecord ==
    /\ Returned => /\ stats.total_studies = StudiesUpTo(stats.found_datasets)
                   /\ stats.total_assays = AssaysUpTo(stats.found_datasets)
    /\ \A i \in Tasks :
          (tpc[i] = "done" /\ OverLimit(rec[i])) =>
             /\ stats.total_studies >= num_studies(rec[i])
             /\ stats.total_assays >= num_assays(rec[i])

\* A returned run with a record over max_studies, one over max_assays and
\* one that was uploaded.
C29_Witness ==
    /\ Returned
    /\ \E i, j, k \in Yielded :
          /\ num_studies(rec[i]) > config.max_studies
          /\ num_assays(rec[j]) > config.max_assays
          /\ upload[k] = "ok"
    /\ stats.total_studies = StudiesUpTo(stats.found_datasets)

\* ------------------------------------------------------------------- C30
\* process_investigations has been left, by return or by a failed fetch.
Exited ==
    ~cancelled /\ pc \in {"returned", "raised", "closed", "closed_raised", "reported", "fatal"}

\* C30: whenever process_investigations has been left, by returning or by an
\* exception of the source stream, no spawned task is still running.
C30_NoTaskAfterExit == Exited => Live = {}

\* ------------------------------------------------------------------- C21
\* The for-loop stands at an ISO record that is an MD_Metadata.
AtRecord ==
    /\ hpc = "records"
    /\ idx <= Len(csw_records)
    /\ yielded_here < max_records
    /\ csw_records[idx].md

\* The item yielded last.
LastItem == items[Len(items)]

\* C21: whatever parsing an ISO record raises, get_records does not raise:
\* the step yields one item for the record, a RecordProcessingError with the
\* record's identifier if the parsing failed, and the loop stands at the next
\* record of the page.
C21_RecordProblemsAreItems ==
    [][AtRecord =>
         /\ hpc' = "records" /\ herror' = herror
         /\ idx' = idx + 1
         /\ Len(items') = Len(items) + 1
         /\ LastItem'.pos = csw_records[idx].pos
         /\ LastItem'.kind = "error" =>
               LastItem'.id \in {csw_records[idx].pos, csw_records[idx].identifier}]_vars

\* An error item for a record whose extraction raised something other than
\* SemanticError, followed by the parsed next record of the same page.
C21_Witness ==
    \E a \in 1..Len(items) :
       /\ a < Len(items)
       /\ items[a].kind = "error" /\ items[a].cause = "other"
       /\ items[a + 1].kind = "record"
       /\ items[a + 1].index = items[a].index + 1

\* ------------------------------------------------------------------- C22
\* C22: the item for the ISO record at index i carries the ISO
\* record's identifier when it has one that is not a placeholder, otherwise
\* the Dublin Core identifier at index i.
C22_IsoIdUnlessPlaceholder ==
    [][Len(items') = Len(items) + 1 =>
         LastItem'.id =
            IF /\ csw_records[idx].identifier # NoId
               /\ ~startswith_owslib_random(csw_records[idx].identifier)
            THEN csw_records[idx].identifier
            ELSE dc_ids[idx]]_vars

\* ------------------------------------------------------------------- C26
\* C26: create_or_update_arc is called only for items that are records,
\* once each; an error item, such as the one for a record without title or
\* abstract, is never uploaded; neither an error item nor a failed mapping
\* or upload ends the harvest.
C26_OnlyRecordsUploaded ==
    /\ \A n \in 1..Len(uploads) :
          /\ uploads[n].item \in 1..Len(items)
          /\ items[uploads[n].item].kind = "record"
          /\ \A m \in 1..Len(uploads) : uploads[m].item = uploads[n].item => m = n
    /\ \A a \in 1..Len(items) :
          items[a].cause \in {"no_title", "no_abstract"} => items[a].kind = "error"
    /\ hpc = "raised" => (herror = "ConnectionError" /\ failed # {})

\* A harvest that went on to the end after an error item for a missing
\* title, a record whose mapping failed, an upload that raised and an upload
\* that went through.
C26_Witness ==
    /\ hpc = "stopped"
    /\ \E a, b \in 1..Len(items) :
          /\ a < b
          /\ items[a].cause = "no_title"
          /\ items[b].kind = "record"
          /\ \A n \in 1..Len(uploads) : uploads[n].item # b
    /\ \E n, m \in 1..Len(uploads) :
          /\ n < m
          /\ uploads[n].raised
          /\ ~uploads[m].raised

\* ------------------------------------------------------------------- C23
\* get_records has ended: exhausted, or with an exception.
HarvestEnded == hpc \in {"stopped", "raised"}

\* C23: paging ends.  The loop is not entered again once start_position has
\* reached an integer matches; an empty Dublin Core page ends it; the
\* requests sent never exceed two per page of a single record, with one page
\* more than there are records, and the last request; and every
\* harvest that is consumed comes to its end, also when no record of a page
\* can be parsed and when matches is no integer.
C23_PagingTerminates ==
    /\ [](hpc = "loop" /\ requests > 0 =>
             ~(isinstance_int(matches) /\ start_position >= matches))
    /\ [](hpc = "iso" => dc_ids # << >>)
    /\ [](requests <= 2 * (catalogue.size + 1) + 1)
    /\ <>HarvestEnded

\* A harvest over several pages that ended on the empty page: the catalogue
\* is full, matches is no integer and no record could be parsed.
C23_Witness ==
    /\ hpc = "stopped"
    /\ failed = {}
    /\ ~catalogue.int_matches
    /\ catalogue.size = MaxRecords
    /\ Len(items) >= MaxRecords
    /\ \A a \in 1..Len(items) : items[a].kind = "error"
    /\ dc_ids = << >>

\* ------------------------------------------------------------------- C25
\* C25: a connection failure of any CSW request of the harvest reaches the
\* caller as a connection error and is never taken for the end of the
\* results.
C25_ConnectionFailureRaised ==
    failed # {} => (hpc = "raised" /\ herror = "ConnectionError")

\* ------------------------------------------------------------------- C24
\* The items yielded for the record numbered n of the catalogue.
ItemsOf(n) == {a \in 1..Len(items) : items[a].pos = n}

PageAssays(by_study) ==
    UNION {{by_study[t][m] : m \in 1..Len(by_study[t])} : t \in DOMAIN by_study}

\* The places <<study, assay>> of an ARC where an assay of the identifier is
\* registered.
PlacesOf(arc, identifier) ==
    {<<k, m>> \in (1..MostStudies) \X (1..MostAssays) :
        /\ k <= Len(arc.RegisteredStudies)
        /\ m <= Len(arc.RegisteredStudies[k].RegisteredAssays)
        /\ arc.RegisteredStudies[k].RegisteredAssays[m].Identifier = identifier}

\* The n-th ARC is the n-th item's: one study per study row, in order, each
\* with the assays of its study_id and no other, every such assay in one
\* study only, and no assay of another investigation's study.
BuiltAsClaimed(n) ==
    LET arc == arcs[n]
        item == yielded[n]
        page == PageAssays(item.assays_by_study)
        own == {item.studies[k].id : k \in 1..Len(item.studies)}
    IN /\ arc.Identifier = decimal(item.inv_row.id)
       /\ Len(arc.RegisteredStudies) = Len(item.studies)
       /\ \A k \in 1..Len(item.studies) :
             LET study == arc.RegisteredStudies[k]
                 mine == {a \in page : a.study_id = item.studies[k].id}
             IN /\ study.Identifier = decimal(item.studies[k].id)
                /\ Len(study.RegisteredAssays) = Cardinality(mine)
                /\ {study.RegisteredAssays[m].Identifier :
                       m \in 1..Len(study.RegisteredAssays)}
                      = {decimal(a.id) : a \in mine}
       /\ \A a \in page :
             Cardinality(PlacesOf(arc, decimal(a.id)))
                = IF a.study_id \in own THEN 1 ELSE 0

====
